---------------------------- MODULE Spec2Model ----------------------------
(***************************************************************************)
(* Model of src/app.py (AI Patent Analyzer): the keyword search            *)
(* (search_pdf_ultimate), the 4-strategy highlighter                       *)
(* (highlight_pdf_ultimate) and the Streamlit script that drives them.     *)
(*                                                                         *)
(* Text is a sequence of one-character strings.  Coordinates are integers  *)
(* in sixteenths of a point, which are exact as binary floats, so          *)
(* Python's round(x, 1) is exact round-half-even on them.  The PDF         *)
(* library (fitz) is an external collaborator: what it answers for a page  *)
(* (plain text, token search, structured layout, text under a rectangle)   *)
(* is an input of the run, and each of its calls may raise.                *)
(***************************************************************************)
EXTENDS Integers, Sequences, FiniteSets, TLC

VARIABLES
    pc,                     \* control position of the running script
    error,                  \* the exception that ended the run, "none" if none
    patents,                \* files under PATENTS_FOLDER: name -> content
    highlighted,            \* files under HIGHLIGHTED_FOLDER: name -> content
    uploaded_file,          \* the file_uploader widget
    keywords_input,         \* the text_area widget
    ui_message,             \* the last st.error / st.success shown by column 2
    event,                  \* the interaction that started the last script run
    session_state,          \* st.session_state
    doc,                    \* fitz document opened by the running function
    search_items,           \* argument of search_pdf_ultimate
    results,                \* results dict of search_pdf_ultimate: key -> entry
    result_keys,            \* insertion order of the keys of results
    match_pct,              \* match_percentage returned by search_pdf_ultimate
    page_num,               \* loop variable of the running function
    item_idx,               \* position of the inner "for item" loop (1-based)
    stage,                  \* strategy about to run for the current item
    hl_items,               \* argument search_items of highlight_pdf_ultimate
    total_highlights,       \* local of highlight_pdf_ultimate
    highlighted_positions,  \* local of highlight_pdf_ultimate
    annots,                 \* highlight annotations added to doc, in order
    last_cands,             \* regions the last strategy step handed to the applier
    saves,                  \* doc.save calls made by the current analysis run
    pdf_path,               \* argument pdf_path of the running function
    output_path             \* argument output_path of highlight_pdf_ultimate

vars == <<pc, error, patents, highlighted, uploaded_file, keywords_input,
          ui_message, event, session_state, doc, search_items, results, result_keys,
          match_pct, page_num, item_idx, stage, hl_items, total_highlights,
          highlighted_positions, annots, last_cands, saves, pdf_path,
          output_path>>

fileVars == <<patents, highlighted>>
searchVars == <<search_items, results, result_keys, match_pct>>
hlVars == <<stage, hl_items, total_highlights, highlighted_positions, annots,
            last_cands, output_path>>
sessionVars == <<uploaded_file, keywords_input, ui_message, event,
                 session_state>>

-----------------------------------------------------------------------------
(* Bounds of the model *)

MaxPages == 2
MaxItems == 2

-----------------------------------------------------------------------------
(* Text primitives *)

Range(s) == {s[i] : i \in 1..Len(s)}

Whitespace == {" ", "\n", "\r", "\t"}

\* str.lower() on the alphabet of the model
Lower(s) ==
    [i \in 1..Len(s) |->
        CASE s[i] = "A" -> "a"
          [] s[i] = "B" -> "b"
          [] s[i] = "C" -> "c"
          [] OTHER -> s[i]]

\* text.replace('\n', ' ').replace('\r', ' ')
ReplaceNewlines(s) ==
    [i \in 1..Len(s) |-> IF s[i] \in {"\n", "\r"} THEN " " ELSE s[i]]

RECURSIVE DropWs(_)
DropWs(s) ==
    IF s # <<>> /\ Head(s) \in Whitespace THEN DropWs(Tail(s)) ELSE s

\* re.sub(r'\s+', ' ', text)
RECURSIVE CollapseWs(_)
CollapseWs(s) ==
    IF s = <<>> THEN <<>>
    ELSE IF Head(s) \in Whitespace
         THEN <<" ">> \o CollapseWs(DropWs(Tail(s)))
         ELSE <<Head(s)>> \o CollapseWs(Tail(s))

RECURSIVE DropTrailingWs(_)
DropTrailingWs(s) ==
    IF s # <<>> /\ s[Len(s)] \in Whitespace
    THEN DropTrailingWs(SubSeq(s, 1, Len(s) - 1))
    ELSE s

\* str.strip()
Strip(s) == DropTrailingWs(DropWs(s))

clean_text(text) == Strip(CollapseWs(ReplaceNewlines(text)))

\* normalize of the specification: whitespace-collapsed, trimmed, lower-cased
Normalize(t) == Lower(clean_text(t))

\* s in t
IsSubstr(s, t) ==
    \E i \in 0..(Len(t) - Len(s)) : SubSeq(t, i + 1, i + Len(s)) = s

\* t.find(s): 0-based index of the first occurrence, -1 if none
Find(t, s) ==
    IF IsSubstr(s, t)
    THEN CHOOSE i \in 0..(Len(t) - Len(s)) :
            /\ SubSeq(t, i + 1, i + Len(s)) = s
            /\ \A j \in 0..(i - 1) : SubSeq(t, j + 1, j + Len(s)) # s
    ELSE -1

RECURSIVE CountFrom(_, _, _)
CountFrom(t, s, i) ==
    IF i + Len(s) - 1 > Len(t) THEN 0
    ELSE IF SubSeq(t, i, i + Len(s) - 1) = s
         THEN 1 + CountFrom(t, s, i + Len(s))
         ELSE CountFrom(t, s, i + 1)

\* t.count(s): non-overlapping occurrences, scanned left to right
Count(t, s) == IF s = <<>> THEN Len(t) + 1 ELSE CountFrom(t, s, 1)

RECURSIVE SplitWs(_, _)
SplitWs(s, cur) ==
    IF s = <<>> THEN (IF cur = <<>> THEN <<>> ELSE <<cur>>)
    ELSE IF Head(s) \in Whitespace
         THEN (IF cur = <<>> THEN SplitWs(Tail(s), <<>>)
               ELSE <<cur>> \o SplitWs(Tail(s), <<>>))
         ELSE SplitWs(Tail(s), Append(cur, Head(s)))

\* str.split()
Split(s) == SplitWs(s, <<>>)

RECURSIVE SplitLinesAcc(_, _)
SplitLinesAcc(s, cur) ==
    IF s = <<>> THEN <<cur>>
    ELSE IF Head(s) = "\n"
         THEN <<cur>> \o SplitLinesAcc(Tail(s), <<>>)
         ELSE SplitLinesAcc(Tail(s), Append(cur, Head(s)))

\* str.split('\n')
SplitLines(s) == SplitLinesAcc(s, <<>>)

\* s[start:end] with 0 <= start
Slice(s, start, end) ==
    SubSeq(s, start + 1, IF end < Len(s) THEN end ELSE Len(s))

Max(a, b) == IF a >= b THEN a ELSE b
Min(a, b) == IF a <= b THEN a ELSE b

\* all sequences over S of length at most n
SeqUpTo(S, n) == UNION {[1..k -> S] : k \in 0..n}


-----------------------------------------------------------------------------
(* Documents and files *)

\* coordinates are in sixteenths of a point
Pt(n) == 16 * n

\* page.rect.width of the pages of the model (US letter, 612 pt)
PageWidth == Pt(612)

\* what fitz answers for one page: get_text("text"), search_for(word) per
\* word, get_text("dict"), get_textbox(rect) per rectangle; text_raises /
\* raises say that the call raises
Page(text_raises, text, hits, dict, box) ==
    [text_raises |-> text_raises, text |-> text, hits |-> hits, dict |-> dict,
     box |-> box, width |-> PageWidth]

NoHits == [raises |-> FALSE, rects |-> <<>>]
NoDict == [raises |-> FALSE, blocks |-> <<>>]

\* a file on disk: a document fitz can open (parses), with the highlight
\* annotations saved in it and the keywords they were made for
File(parses, pages, saved_annots, items) ==
    [exists |-> TRUE, parses |-> parses, pages |-> pages,
     annots |-> saved_annots, items |-> items]

NoFile ==
    [exists |-> FALSE, parses |-> FALSE, pages |-> <<>>, annots |-> <<>>,
     items |-> <<>>]

\* the file_uploader widget: empty, or a file of a name with its bytes
Upload(name, data) == [present |-> TRUE, name |-> name, data |-> data]
NoUpload == [present |-> FALSE, name |-> "", data |-> NoFile]

Names == {"p.pdf", "q.pdf"}

\* HIGHLIGHTED_FOLDER / f"highlighted_{name}"
HighlightedName(name) ==
    CASE name = "p.pdf" -> "highlighted_p.pdf"
      [] name = "q.pdf" -> "highlighted_q.pdf"
      [] OTHER -> "highlighted_"

OutNames == {HighlightedName(n) : n \in Names}

-----------------------------------------------------------------------------
(* search_pdf_ultimate *)

ContextRadius == 200
MaxContexts == 3

EmptyEntry == [count |-> 0, pages |-> <<>>, contexts |-> <<>>, found |-> FALSE]

\* keys of the dict built by "for item in search_items: results[item] = ...":
\* a key assigned again keeps its first position
RECURSIVE DictKeysFrom(_, _)
DictKeysFrom(items, keys) ==
    IF items = <<>> THEN keys
    ELSE DictKeysFrom(Tail(items),
                      IF Head(items) \in Range(keys) THEN keys
                      ELSE Append(keys, Head(items)))

\* mutant: one report entry per input entry, as a list would keep them
DictKeysOfList(items) == items

DictKeys(items) == DictKeysFrom(items, <<>>)

\* the context snippet of lines 91-94
Context(page_text, page_text_clean, item_clean) ==
    LET pos == Find(page_text_clean, item_clean)
        start == Max(0, pos - ContextRadius)
        end == Min(Len(page_text), pos + Len(item_clean) + ContextRadius)
        cut == Slice(page_text, start, end)
    IN Strip([i \in 1..Len(cut) |-> IF cut[i] = "\n" THEN " " ELSE cut[i]])

\* mutant: the append without its "not in" test
AddPageUntested(pages, n) == Append(pages, n)

\* pages list after "if page_num + 1 not in pages: pages.append(page_num + 1)"
AddPage(pages, n) == IF n \in Range(pages) THEN pages ELSE Append(pages, n)

\* body of the inner loop (lines 78-98) for one item on one page
SearchEntry(entry, item, page_text, pn) ==
    LET page_text_clean == Lower(clean_text(page_text))
        item_clean == Lower(clean_text(item))
    IN IF IsSubstr(item_clean, page_text_clean)
       THEN [found |-> TRUE,
             count |-> entry.count + Count(page_text_clean, item_clean),
             pages |-> AddPage(entry.pages, pn + 1),
             contexts |->
                IF Len(entry.contexts) < MaxContexts
                THEN Append(entry.contexts,
                            [page |-> pn + 1,
                             text |-> Context(page_text, page_text_clean,
                                              item_clean)])
                ELSE entry.contexts]
       ELSE entry

\* match_percentage (lines 108-110) as the exact fraction num/den
MatchPercentage(items, res) ==
    LET total_items == Len(items)
        matched_items == Cardinality({k \in DOMAIN res : res[k].found})
    IN IF total_items > 0
       THEN [num |-> matched_items * 100, den |-> total_items]
       ELSE [num |-> 0, den |-> 1]

Abort(kind) ==
    /\ pc' = "aborted"
    /\ error' = kind

\* lines 48-59: open the document, build the results dict
SearchOpen ==
    /\ pc = "search_open"
    /\ LET f == patents[pdf_path]
       IN IF f.exists /\ f.parses
          THEN /\ doc' = f.pages
               /\ results' = [k \in Range(search_items) |-> EmptyEntry]
               /\ result_keys' = DictKeys(search_items)
               /\ page_num' = 0
               /\ pc' = "search_page"
               /\ UNCHANGED error
          ELSE /\ Abort("open")
               /\ UNCHANGED <<doc, results, result_keys, page_num>>
    /\ UNCHANGED <<fileVars, sessionVars, search_items, match_pct, item_idx,
                   hlVars, saves, pdf_path>>

\* lines 67-76: load the next page and read its text
SearchPage ==
    /\ pc = "search_page"
    /\ page_num < Len(doc)
    /\ IF doc[page_num + 1].text_raises
       THEN /\ Abort("page_text")
            /\ UNCHANGED <<page_num, item_idx>>
       ELSE IF search_items = <<>>
            THEN /\ page_num' = page_num + 1
                 /\ UNCHANGED <<pc, error, item_idx>>
            ELSE /\ pc' = "search_item"
                 /\ item_idx' = 1
                 /\ UNCHANGED <<error, page_num>>
    /\ UNCHANGED <<fileVars, sessionVars, doc, searchVars, hlVars, saves,
                   pdf_path>>

\* lines 78-98: one item of the inner loop on the current page
SearchItem ==
    /\ pc = "search_item"
    /\ LET item == search_items[item_idx]
       IN results' = [results EXCEPT ![item] =
                        SearchEntry(@, item, doc[page_num + 1].text, page_num)]
    /\ IF item_idx < Len(search_items)
       THEN /\ item_idx' = item_idx + 1
            /\ UNCHANGED <<pc, page_num>>
       ELSE /\ page_num' = page_num + 1
            /\ pc' = "search_page"
            /\ UNCHANGED item_idx
    /\ UNCHANGED <<error, fileVars, sessionVars, doc, search_items,
                   result_keys, match_pct, hlVars, saves, pdf_path>>

\* lines 105-112: close the document and compute the match percentage
SearchFinish ==
    /\ pc = "search_page"
    /\ page_num = Len(doc)
    /\ match_pct' = MatchPercentage(search_items, results)
    /\ pc' = "search_done"
    /\ UNCHANGED <<error, fileVars, sessionVars, doc, search_items, results,
                   result_keys, page_num, item_idx, hlVars, saves, pdf_path>>

-----------------------------------------------------------------------------
(* Inputs of the search specification *)

SearchTexts ==
    { <<"A", "\n", "a">>,          \* "a a" once normalised
      <<"a", "a", "a">>,           \* overlapping occurrences of "aa"
      <<" ", "a", "\n", " ", "B">> \* "a b" once normalised
    }

SearchPages ==
    {Page(FALSE, t, <<>>, NoDict, <<>>) : t \in SearchTexts}
        \cup {Page(TRUE, <<>>, <<>>, NoDict, <<>>)}

SearchKeywords ==
    { <<"a">>, <<"A">>, <<"a", "a">>, <<"a", " ", " ", "b">> }

NoSession ==
    [keys |-> {"analyzed"}, analyzed |-> FALSE, current_pdf |-> "",
     page_count |-> 0, results |-> <<>>, result_keys |-> <<>>,
     match_percentage |-> [num |-> 0, den |-> 1], highlighted_pdf |-> "",
     total_highlights |-> 0, search_items |-> <<>>]

\* a call search_pdf_ultimate(pdf_path, search_items) on a stored file
InitSearch ==
    /\ pc = "search_open"
    /\ error = "none"
    /\ pdf_path = "p.pdf"
    /\ \E f \in {File(TRUE, d, <<>>, <<>>) : d \in SeqUpTo(SearchPages, MaxPages)}
                \cup {File(FALSE, <<>>, <<>>, <<>>)} :
          patents = [n \in Names |-> IF n = "p.pdf" THEN f ELSE NoFile]
    /\ highlighted = [n \in OutNames |-> NoFile]
    /\ uploaded_file = NoUpload
    /\ keywords_input = <<>>
    /\ ui_message = "none"
    /\ event = "none"
    /\ session_state = NoSession
    /\ doc = <<>>
    /\ search_items \in SeqUpTo(SearchKeywords, MaxItems)
    /\ results = <<>>
    /\ result_keys = <<>>
    /\ match_pct = [num |-> 0, den |-> 1]
    /\ page_num = 0
    /\ item_idx = 0
    /\ stage = "s12"
    /\ hl_items = <<>>
    /\ total_highlights = 0
    /\ highlighted_positions = {}
    /\ annots = <<>>
    /\ last_cands = <<>>
    /\ saves = 0
    /\ output_path = ""

NextSearch == SearchOpen \/ SearchPage \/ SearchItem \/ SearchFinish

SpecSearch == InitSearch /\ [][NextSearch]_vars

-----------------------------------------------------------------------------
(* highlight_pdf_ultimate: geometry, similarity, the applier *)

Rect(x0, y0, x1, y1) == [x0 |-> x0, y0 |-> y0, x1 |-> x1, y1 |-> y1]

\* round(x, 1) for x = n/16, in tenths: round-half-even of 10n/16 = 5n/8
Round1(n) ==
    LET q == (5 * n) \div 8
        r == (5 * n) % 8
    IN IF r < 4 THEN q
       ELSE IF r > 4 THEN q + 1
       ELSE IF q % 2 = 0 THEN q ELSE q + 1

\* pos_key = (page_num, round(rect.x0, 1), round(rect.y0, 1))
PosKey(pn, rect) == <<pn, Round1(rect.x0), Round1(rect.y0)>>

\* a candidate region: the rectangle, the opacity (percent) and the strategy
\* that proposes it
Region(rect, opacity, strategy) ==
    [rect |-> rect, opacity |-> opacity, strategy |-> strategy]

\* the applier's state: total_highlights, highlighted_positions and the
\* annotations added to the document
Applier(total, positions, added) ==
    [total |-> total, positions |-> positions, annots |-> added]

\* mutant: the block without its "pos_key not in highlighted_positions" test
ApplyWithoutTest(st, pn, item, cand) ==
    Applier(st.total + 1,
            st.positions \cup {PosKey(pn, cand.rect)},
            Append(st.annots,
                   [page |-> pn, rect |-> cand.rect, opacity |-> cand.opacity,
                    strategy |-> cand.strategy, item |-> item]))

\* mutant: the block without its highlighted_positions.add(pos_key)
ApplyWithoutRecord(st, pn, item, cand) ==
    IF PosKey(pn, cand.rect) \notin st.positions
    THEN Applier(st.total + 1,
                 st.positions,
                 Append(st.annots,
                        [page |-> pn, rect |-> cand.rect,
                         opacity |-> cand.opacity, strategy |-> cand.strategy,
                         item |-> item]))
    ELSE st

\* the dedup-and-apply block (lines 153-160, 187-194, 227-234, 259-266)
Apply(st, pn, item, cand) ==
    LET pos_key == PosKey(pn, cand.rect)
    IN IF pos_key \notin st.positions
       THEN Applier(st.total + 1,
                    st.positions \cup {pos_key},
                    Append(st.annots,
                           [page |-> pn, rect |-> cand.rect,
                            opacity |-> cand.opacity,
                            strategy |-> cand.strategy, item |-> item]))
       ELSE st

\* the dedup-and-apply block run over the candidates of one strategy, in order
RECURSIVE ApplyAll(_, _, _, _)
ApplyAll(st, pn, item, cands) ==
    IF cands = <<>> THEN st
    ELSE ApplyAll(Apply(st, pn, item, Head(cands)), pn, item, Tail(cands))

\* longest matching block of a and b as <<i, j, k>> (a[i..i+k-1] = b[j..j+k-1]),
\* the one starting earliest in a, then earliest in b; k = 0 if none
\* (difflib.SequenceMatcher.find_longest_match without junk; autojunk only
\* acts on sequences of 200 elements or more)
LongestMatch(a, b) ==
    LET blocks == {m \in (1..Len(a)) \X (1..Len(b)) \X (1..Min(Len(a), Len(b))) :
                      /\ m[1] + m[3] - 1 <= Len(a)
                      /\ m[2] + m[3] - 1 <= Len(b)
                      /\ SubSeq(a, m[1], m[1] + m[3] - 1)
                            = SubSeq(b, m[2], m[2] + m[3] - 1)}
    IN IF blocks = {} THEN <<1, 1, 0>>
       ELSE CHOOSE m \in blocks :
               \A n \in blocks :
                  \/ n[3] < m[3]
                  \/ n[3] = m[3] /\ m[1] < n[1]
                  \/ n[3] = m[3] /\ m[1] = n[1] /\ m[2] <= n[2]

\* total size of the matching blocks (SequenceMatcher.get_matching_blocks)
RECURSIVE MatchingSize(_, _)
MatchingSize(a, b) ==
    LET m == LongestMatch(a, b)
    IN IF m[3] = 0 THEN 0
       ELSE m[3]
            + MatchingSize(SubSeq(a, 1, m[1] - 1), SubSeq(b, 1, m[2] - 1))
            + MatchingSize(SubSeq(a, m[1] + m[3], Len(a)),
                           SubSeq(b, m[2] + m[3], Len(b)))

\* SequenceMatcher(None, a, b).ratio() > 0.55, with ratio = 2*M/(len a + len b)
\* and 1.0 for two empty sequences
SimilarityAbove055(a, b) ==
    IF Len(a) + Len(b) = 0 THEN TRUE
    ELSE 200 * MatchingSize(a, b) > 55 * (Len(a) + Len(b))

\* page.search_for(word): the rectangles of the hits, or the call raises
SearchFor(page, word) ==
    IF word \in DOMAIN page.hits THEN page.hits[word] ELSE NoHits

\* the rectangle of strategy 2 (lines 170-178); widths are truncated to a
\* sixteenth of a point
Expanded(first_inst, first_word, item_clean, page) ==
    LET phrase_width ==
            ((first_inst.x1 - first_inst.x0) * Len(item_clean) * 13)
                \div (Len(first_word) * 10)
    IN Rect(first_inst.x0 - Pt(2),
            first_inst.y0 - Pt(2),
            Min(first_inst.x0 + phrase_width, page.width - Pt(5)),
            first_inst.y1 + Pt(2))

\* the rectangle of strategy 4 (lines 247-252)
NearbyRect(inst) ==
    Rect(inst.x0 - Pt(100), inst.y0 - Pt(5), inst.x1 + Pt(100), inst.y1 + Pt(5))

\* page.get_textbox(rect): the text under the rectangle (none where the page
\* records none), or the call raises
GetTextbox(page, rect) ==
    IF rect \in DOMAIN page.box THEN page.box[rect]
    ELSE [raises |-> FALSE, text |-> <<>>]

\* lines 181-186: the expanded rectangle is accepted
Accepts2(item_clean, answer) ==
    /\ ~answer.raises
    /\ LET rect_clean == Lower(clean_text(answer.text))
       IN SimilarityAbove055(item_clean, rect_clean)
            \/ IsSubstr(item_clean, rect_clean)

\* lines 255-258: the word hit is accepted
Accepts4(words, word, answer) ==
    /\ ~answer.raises
    /\ LET nearby_clean == Lower(clean_text(answer.text))
       IN \E i \in 1..Len(words) :
             words[i] # word /\ IsSubstr(words[i], nearby_clean)

\* the elements t[i] with keep[i], in order
RECURSIVE Filtered(_, _)
Filtered(t, keep) ==
    IF t = <<>> THEN <<>>
    ELSE IF Head(keep) THEN <<Head(t)>> \o Filtered(Tail(t), Tail(keep))
         ELSE Filtered(Tail(t), Tail(keep))

RECURSIVE Flatten(_)
Flatten(ss) == IF ss = <<>> THEN <<>> ELSE Head(ss) \o Flatten(Tail(ss))

\* span texts of a line (or of all the lines of a block) joined as in
\* lines 208-211 and 217-219: each followed by a space
JoinSpans(spans) ==
    Flatten([i \in 1..Len(spans) |-> spans[i] \o <<" ">>])

BlockText(block) ==
    Flatten([i \in 1..Len(block.lines) |-> JoinSpans(block.lines[i].spans)])

\* lines 216-225 for one block: the lines that hold some word of the phrase
LinesOfBlock(block, words) ==
    LET keep == [i \in 1..Len(block.lines) |->
                    LET line_text_clean ==
                            Lower(clean_text(JoinSpans(block.lines[i].spans)))
                    IN \E w \in 1..Len(words) :
                          IsSubstr(words[w], line_text_clean)]
    IN Filtered([i \in 1..Len(block.lines) |->
                    Region(block.lines[i].bbox, 45, 3)], keep)

\* mutant: the lines of a block without the test of the block's text
BlockCandidatesUntested(block, item_clean, words) ==
    IF ~block.has_lines THEN <<>> ELSE LinesOfBlock(block, words)

\* the candidates of strategy 3 (lines 204-225) for a block of the layout
BlockCandidates(block, item_clean, words) ==
    IF ~block.has_lines THEN <<>>
    ELSE IF IsSubstr(item_clean, Lower(clean_text(BlockText(block))))
         THEN LinesOfBlock(block, words)
         ELSE <<>>

Strategy3Candidates(blocks, item_clean, words) ==
    Flatten([b \in 1..Len(blocks) |->
                BlockCandidates(blocks[b], item_clean, words)])

-----------------------------------------------------------------------------
(* highlight_pdf_ultimate: the steps *)

CurPage == doc[page_num + 1]
CurItem == hl_items[item_idx]
ItemClean == Lower(clean_text(CurItem))
Words == Split(ItemClean)
CurApplier == Applier(total_highlights, highlighted_positions, annots)

SetApplier(st) ==
    /\ total_highlights' = st.total
    /\ highlighted_positions' = st.positions
    /\ annots' = st.annots

\* the candidates a strategy step hands to the applier, with their page and item
Submitted(pn, item, cands) ==
    [i \in 1..Len(cands) |-> [page |-> pn, item |-> item, cand |-> cands[i]]]

\* the end of the body of "for item in search_items" (and of "for page_num")
HlAdvance ==
    /\ stage' = "s12"
    /\ IF item_idx < Len(hl_items)
       THEN /\ item_idx' = item_idx + 1
            /\ UNCHANGED <<pc, page_num>>
       ELSE IF page_num + 1 < Len(doc)
            THEN /\ page_num' = page_num + 1
                 /\ item_idx' = 1
                 /\ UNCHANGED pc
            ELSE /\ pc' = "hl_save"
                 /\ UNCHANGED <<page_num, item_idx>>

hlFrame == <<fileVars, sessionVars, searchVars, pdf_path, output_path,
             hl_items, saves>>

\* lines 119-123: open the document
HlOpen ==
    /\ pc = "hl_open"
    /\ LET f == patents[pdf_path]
       IN IF f.exists /\ f.parses
          THEN /\ doc' = f.pages
               /\ total_highlights' = 0
               /\ highlighted_positions' = {}
               /\ annots' = <<>>
               /\ last_cands' = <<>>
               /\ page_num' = 0
               /\ item_idx' = 1
               /\ stage' = "s12"
               /\ pc' = IF f.pages = <<>> \/ hl_items = <<>>
                        THEN "hl_save" ELSE "hl_item"
               /\ UNCHANGED error
          ELSE /\ Abort("open")
               /\ UNCHANGED <<doc, total_highlights, highlighted_positions,
                              annots, last_cands, page_num, item_idx, stage>>
    /\ UNCHANGED hlFrame

\* lines 140-144: an item without words is skipped
HlSkipItem ==
    /\ pc = "hl_item"
    /\ stage = "s12"
    /\ Words = <<>>
    /\ HlAdvance
    /\ last_cands' = <<>>
    /\ UNCHANGED <<error, doc, total_highlights, highlighted_positions, annots,
                   hlFrame>>

\* lines 149-160: strategy 1, a single word
HlStrategy1 ==
    /\ pc = "hl_item"
    /\ stage = "s12"
    /\ Len(Words) = 1
    /\ LET instances == SearchFor(CurPage, Words[1])
       IN IF instances.raises
          THEN /\ Abort("search_for")
               /\ UNCHANGED <<stage, total_highlights, highlighted_positions,
                              annots, last_cands>>
          ELSE LET cands == [i \in 1..Len(instances.rects) |->
                                Region(instances.rects[i], 45, 1)]
               IN /\ SetApplier(ApplyAll(CurApplier, page_num, CurItem, cands))
                  /\ last_cands' = Submitted(page_num, CurItem, cands)
                  /\ stage' = "s3"
                  /\ UNCHANGED <<pc, error>>
    /\ UNCHANGED <<doc, page_num, item_idx, hlFrame>>

\* lines 169-196: the accepted expanded rectangles of strategy 2
Strategy2Candidates(page, item_clean, words, first_instances) ==
    LET n == Len(first_instances)
        expanded == [i \in 1..n |->
                        Expanded(first_instances[i], words[1], item_clean, page)]
        keep == [i \in 1..n |->
                    Accepts2(item_clean, GetTextbox(page, expanded[i]))]
    IN Filtered([i \in 1..n |-> Region(expanded[i], 45, 2)], keep)

\* lines 165-196: strategy 2, a phrase of two words or more
HlStrategy2 ==
    /\ pc = "hl_item"
    /\ stage = "s12"
    /\ Len(Words) >= 2
    /\ LET first_instances == SearchFor(CurPage, Words[1])
       IN IF first_instances.raises
          THEN /\ Abort("search_for")
               /\ UNCHANGED <<stage, total_highlights, highlighted_positions,
                              annots, last_cands>>
          ELSE LET cands == Strategy2Candidates(CurPage, ItemClean, Words,
                                                first_instances.rects)
               IN /\ SetApplier(ApplyAll(CurApplier, page_num, CurItem, cands))
                  /\ last_cands' = Submitted(page_num, CurItem, cands)
                  /\ stage' = "s3"
                  /\ UNCHANGED <<pc, error>>
    /\ UNCHANGED <<doc, page_num, item_idx, hlFrame>>

\* mutant: strategy 4 whatever the number of words
Strategy4AppliesAlways(words) == TRUE

\* line 241: strategy 4 runs for phrases of three words or more
Strategy4Applies(words) == Len(words) >= 3

\* mutant: the layout read of strategy 3 without its try/except
Strategy3ReadUncaught(page, item_clean, words) ==
    IF page.dict.raises THEN [raises |-> TRUE, cands |-> <<>>]
    ELSE [raises |-> FALSE,
          cands |-> Strategy3Candidates(page.dict.blocks, item_clean, words)]

\* lines 201-236: page.get_text("dict") and the scan of its blocks inside
\* try/except: a layout that cannot be read leaves no candidate and nothing
\* is raised to the caller
Strategy3Read(page, item_clean, words) ==
    IF page.dict.raises THEN [raises |-> FALSE, cands |-> <<>>]
    ELSE [raises |-> FALSE,
          cands |-> Strategy3Candidates(page.dict.blocks, item_clean, words)]

\* lines 201-241: strategy 3, the structured layout; then strategy 4 if the
\* phrase has three words or more, the next item otherwise
HlStrategy3 ==
    /\ pc = "hl_item"
    /\ stage = "s3"
    /\ LET read == Strategy3Read(CurPage, ItemClean, Words)
       IN IF read.raises
          THEN /\ Abort("layout")
               /\ UNCHANGED <<stage, page_num, item_idx, total_highlights,
                              highlighted_positions, annots, last_cands>>
          ELSE /\ SetApplier(ApplyAll(CurApplier, page_num, CurItem,
                                      read.cands))
               /\ last_cands' = Submitted(page_num, CurItem, read.cands)
               /\ IF Strategy4Applies(Words)
                  THEN /\ stage' = "s4"
                       /\ UNCHANGED <<pc, page_num, item_idx>>
                  ELSE HlAdvance
               /\ UNCHANGED error
    /\ UNCHANGED <<doc, hlFrame>>

\* the words strategy 4 searches for: those longer than 2 characters
LongWords(words) == {w \in 1..Len(words) : Len(words[w]) > 2}

\* the accepted hits of strategy 4 for the words from position w on
RECURSIVE Strategy4Candidates(_, _, _)
Strategy4Candidates(page, words, w) ==
    IF w > Len(words) THEN <<>>
    ELSE (IF w \in LongWords(words)
          THEN LET inst == SearchFor(page, words[w]).rects
                   keep == [i \in 1..Len(inst) |->
                               Accepts4(words, words[w],
                                        GetTextbox(page, NearbyRect(inst[i])))]
               IN Filtered([i \in 1..Len(inst) |-> Region(inst[i], 35, 4)],
                           keep)
          ELSE <<>>)
         \o Strategy4Candidates(page, words, w + 1)

\* lines 241-268: strategy 4, word by word for phrases of three words or more;
\* a search_for that raises ends the run, whatever was annotated before it
HlStrategy4 ==
    /\ pc = "hl_item"
    /\ stage = "s4"
    /\ IF \E w \in LongWords(Words) : SearchFor(CurPage, Words[w]).raises
       THEN /\ Abort("search_for")
            /\ UNCHANGED <<stage, page_num, item_idx, total_highlights,
                           highlighted_positions, annots, last_cands>>
       ELSE LET cands == Strategy4Candidates(CurPage, Words, 1)
            IN /\ SetApplier(ApplyAll(CurApplier, page_num, CurItem, cands))
               /\ last_cands' = Submitted(page_num, CurItem, cands)
               /\ HlAdvance
               /\ UNCHANGED error
    /\ UNCHANGED <<doc, hlFrame>>

\* lines 275-278: save the annotated document; the save may fail
HlSave ==
    /\ pc = "hl_save"
    /\ \/ /\ highlighted' = [highlighted EXCEPT ![output_path] =
                                File(TRUE, doc, annots, hl_items)]
          /\ saves' = saves + 1
          /\ pc' = "hl_done"
          /\ UNCHANGED error
       \/ /\ Abort("save")
          /\ UNCHANGED <<highlighted, saves>>
    /\ UNCHANGED <<patents, sessionVars, searchVars, pdf_path, doc, page_num,
                   item_idx, hlVars>>

-----------------------------------------------------------------------------
(* Inputs of the highlight specification *)

R1 == Rect(33, 32, 65, 48)
R2 == Rect(34, 32, 66, 48)     \* same position key as R1
R3 == Rect(100, 32, 148, 48)   \* x0 = 6.25: a tie of round(x, 1)

Line(spans, bbox) == [spans |-> spans, bbox |-> bbox]
TextBlock(lines) == [has_lines |-> TRUE, lines |-> lines]
ImageBlock == [has_lines |-> FALSE, lines |-> <<>>]

Hits(rects) == [raises |-> FALSE, rects |-> rects]
HitsRaise == [raises |-> TRUE, rects |-> <<>>]
Layout(blocks) == [raises |-> FALSE, blocks |-> blocks]
LayoutRaises == [raises |-> TRUE, blocks |-> <<>>]
BoxText(text) == [raises |-> FALSE, text |-> text]
BoxRaises == [raises |-> TRUE, text |-> <<>>]

W_a == <<"a">>
W_abc == <<"a", "b", "c">>
K_ab == <<"a", " ", "b">>
K_abcab == <<"a", "b", "c", " ", "a", " ", "b">>

\* the rectangles strategy 2 reads on a page of the model
Exp(inst, first_word, item_clean) ==
    Expanded(inst, first_word, item_clean, [width |-> PageWidth])

\* a block of two lines, "a" and "B": the phrase "a b" spans both
P_ab ==
    Page(FALSE, <<"a", "\n", "B">>,
         (W_a :> Hits(<<R1, R2>>)) @@ (W_abc :> Hits(<<R3>>)),
         Layout(<<TextBlock(<<Line(<<W_a>>, R1), Line(<<<<"B">>>>, R3)>>)>>),
         (Exp(R1, W_a, K_ab) :> BoxText(<<"a", "\n", "B">>))
           @@ (Exp(R2, W_a, K_ab)
                  :> BoxText(<<"x", "x", "x", "x", "x", "a", " ", "b">>))
           @@ (Exp(R3, W_abc, K_abcab) :> BoxText(K_ab))
           @@ (NearbyRect(R3) :> BoxText(<<"x">>)))

\* the token search for "a", the layout and a text-box read raise
P_raise ==
    Page(FALSE, <<"a">>,
         (W_a :> HitsRaise) @@ (W_abc :> Hits(<<R1, R3>>)),
         LayoutRaises,
         (Exp(R1, W_abc, K_abcab) :> BoxRaises)
           @@ (Exp(R3, W_abc, K_abcab) :> BoxText(K_abcab))
           @@ (NearbyRect(R1) :> BoxText(<<"a", " ", "B">>)))

\* an image block, and a line of three spans that holds "abc a b"
P_abc ==
    Page(FALSE, K_abcab,
         (W_a :> Hits(<<R3>>)) @@ (W_abc :> Hits(<<R1, R3>>)),
         Layout(<<ImageBlock,
                  TextBlock(<<Line(<<<<"a", "b", "c", " ">>, <<"A">>,
                                     <<" ", "b">>>>, R2)>>)>>),
         (Exp(R3, W_a, K_ab) :> BoxText(<<"x">>))
           @@ (Exp(R1, W_abc, K_abcab) :> BoxText(K_abcab))
           @@ (NearbyRect(R1) :> BoxRaises)
           @@ (NearbyRect(R3) :> BoxText(<<"a">>)))

HlPages == {P_ab, P_raise, P_abc}

HlKeywords == { W_a, <<"A">>, K_ab, K_abcab, <<" ">> }

\* a call highlight_pdf_ultimate(pdf_path, output_path, search_items)
InitHighlight ==
    /\ pc = "hl_open"
    /\ error = "none"
    /\ pdf_path = "p.pdf"
    /\ output_path = HighlightedName("p.pdf")
    /\ \E f \in {File(TRUE, d, <<>>, <<>>) : d \in SeqUpTo(HlPages, MaxPages)}
                \cup {File(FALSE, <<>>, <<>>, <<>>)} :
          patents = [n \in Names |-> IF n = "p.pdf" THEN f ELSE NoFile]
    /\ highlighted = [n \in OutNames |-> NoFile]
    /\ uploaded_file = NoUpload
    /\ keywords_input = <<>>
    /\ ui_message = "none"
    /\ event = "none"
    /\ session_state = NoSession
    /\ doc = <<>>
    /\ search_items = <<>>
    /\ results = <<>>
    /\ result_keys = <<>>
    /\ match_pct = [num |-> 0, den |-> 1]
    /\ page_num = 0
    /\ item_idx = 0
    /\ stage = "s12"
    /\ hl_items \in SeqUpTo(HlKeywords, MaxItems)
    /\ total_highlights = 0
    /\ highlighted_positions = {}
    /\ annots = <<>>
    /\ last_cands = <<>>
    /\ saves = 0

NextHighlight ==
    \/ HlOpen
    \/ HlSkipItem
    \/ HlStrategy1
    \/ HlStrategy2
    \/ HlStrategy3
    \/ HlStrategy4
    \/ HlSave

SpecHighlight == InitHighlight /\ [][NextHighlight]_vars

-----------------------------------------------------------------------------
(* The Streamlit script: every interaction runs it from the top *)

\* lines 390-408: the upload block writes the uploaded bytes under their name
Col1Patents(up, files) ==
    IF up.present THEN [files EXCEPT ![up.name] = up.data] ELSE files

\* lines 411-457: the upload block records the file if fitz opens it
Col1Session(up, ss) ==
    IF up.present /\ up.data.parses
    THEN [ss EXCEPT !.keys = @ \cup {"current_pdf", "page_count"},
                    !.current_pdf = up.name,
                    !.page_count = Len(up.data.pages)]
    ELSE ss

\* mutant: the test of line 500 without strip()
NoKeywordEnteredUnstripped(input) == input = <<>>

\* line 500: not keywords_input.strip()
NoKeywordEntered(input) == Strip(input) = <<>>

\* line 503: [k.strip() for k in keywords_input.split('\n') if k.strip()]
RECURSIVE StrippedNonBlank(_)
StrippedNonBlank(lines) ==
    IF lines = <<>> THEN <<>>
    ELSE (IF Strip(Head(lines)) # <<>> THEN <<Strip(Head(lines))>> ELSE <<>>)
            \o StrippedNonBlank(Tail(lines))

ParseKeywords(input) == StrippedNonBlank(SplitLines(input))

\* mutant: every key of the report, found or not
FoundItemsAll(res, keys) == keys

\* line 513: [k for k, v in results.items() if v['found']]
FoundItems(res, keys) ==
    Filtered(keys, [i \in 1..Len(keys) |-> res[keys[i]].found])

Idle == pc \in {"idle", "aborted"}

\* the locals of search_pdf_ultimate and highlight_pdf_ultimate are gone once
\* the script run that called them has ended
ResetLocals ==
    /\ doc' = <<>>
    /\ results' = <<>>
    /\ result_keys' = <<>>
    /\ match_pct' = [num |-> 0, den |-> 1]
    /\ page_num' = 0
    /\ item_idx' = 0
    /\ stage' = "s12"
    /\ hl_items' = <<>>
    /\ total_highlights' = 0
    /\ highlighted_positions' = {}
    /\ annots' = <<>>
    /\ last_cands' = <<>>
    /\ output_path' = ""

ResetArguments ==
    /\ search_items' = <<>>
    /\ pdf_path' = ""

\* the user puts a file into the uploader
SelectFile(up) ==
    /\ Idle
    /\ uploaded_file' = up
    /\ patents' = Col1Patents(up, patents)
    /\ session_state' = Col1Session(up, session_state)
    /\ event' = "select"
    /\ ui_message' = "none"
    /\ pc' = "idle"
    /\ error' = "none"
    /\ ResetLocals
    /\ ResetArguments
    /\ UNCHANGED <<highlighted, keywords_input, saves>>

\* the user removes the file from the uploader
ClearFile ==
    /\ Idle
    /\ uploaded_file.present
    /\ uploaded_file' = NoUpload
    /\ event' = "clear"
    /\ ui_message' = "none"
    /\ pc' = "idle"
    /\ error' = "none"
    /\ ResetLocals
    /\ ResetArguments
    /\ UNCHANGED <<fileVars, keywords_input, session_state, saves>>

\* lines 499-508: ANALYZE is pressed with the text area holding input
AnalyzeBtn(input) ==
    /\ Idle
    /\ "current_pdf" \in Col1Session(uploaded_file, session_state).keys
    /\ keywords_input' = input
    /\ event' = "analyze"
    /\ patents' = Col1Patents(uploaded_file, patents)
    /\ session_state' = Col1Session(uploaded_file, session_state)
    /\ error' = "none"
    /\ IF NoKeywordEntered(input)
       THEN /\ ui_message' = "error_no_keyword"
            /\ pc' = "idle"
            /\ ResetArguments
            /\ UNCHANGED saves
       ELSE /\ ui_message' = "analyzing"
            /\ search_items' = ParseKeywords(input)
            /\ pdf_path' = session_state'.current_pdf
            /\ saves' = 0
            /\ pc' = "search_open"
    /\ ResetLocals
    /\ UNCHANGED <<highlighted, uploaded_file>>

\* lines 524-532: the run is stored in the session and the script runs again
StoreAndRerun(total) ==
    /\ session_state' =
          Col1Session(uploaded_file,
             [session_state EXCEPT
                !.keys = @ \cup {"results", "match_percentage",
                                 "highlighted_pdf", "total_highlights",
                                 "search_items"},
                !.analyzed = TRUE,
                !.results = results,
                !.result_keys = result_keys,
                !.match_percentage = match_pct,
                !.highlighted_pdf = HighlightedName(session_state.current_pdf),
                !.total_highlights = total,
                !.search_items = search_items])
    /\ patents' = Col1Patents(uploaded_file, patents)
    /\ ui_message' = "analysis_complete"
    /\ pc' = "idle"
    /\ ResetLocals
    /\ ResetArguments

\* lines 510-522: after the search, highlight the found items if there are any
AnalyzeAfterSearch ==
    /\ pc = "search_done"
    /\ LET found_items == FoundItems(results, result_keys)
       IN IF found_items # <<>>
          THEN /\ hl_items' = found_items
               /\ output_path' = HighlightedName(session_state.current_pdf)
               /\ pc' = "hl_open"
               /\ UNCHANGED <<patents, session_state, ui_message, doc,
                              searchVars, page_num, item_idx, stage,
                              total_highlights, highlighted_positions, annots,
                              last_cands, pdf_path>>
          ELSE StoreAndRerun(0)
    /\ UNCHANGED <<error, highlighted, uploaded_file, keywords_input, event,
                   saves>>

\* lines 516-532: highlight_pdf_ultimate has returned
AnalyzeStore ==
    /\ pc = "hl_done"
    /\ StoreAndRerun(total_highlights)
    /\ UNCHANGED <<error, highlighted, uploaded_file, keywords_input, event,
                   saves>>

\* lines 494-497: NEW ANALYSIS, shown once a run is stored
NewAnalysis ==
    /\ Idle
    /\ "current_pdf" \in Col1Session(uploaded_file, session_state).keys
    /\ session_state.analyzed
    /\ session_state' =
          Col1Session(uploaded_file,
                      [Col1Session(uploaded_file, session_state)
                          EXCEPT !.analyzed = FALSE])
    /\ patents' = Col1Patents(uploaded_file, patents)
    /\ event' = "new"
    /\ ui_message' = "none"
    /\ pc' = "idle"
    /\ error' = "none"
    /\ ResetLocals
    /\ ResetArguments
    /\ UNCHANGED <<highlighted, uploaded_file, keywords_input, saves>>

-----------------------------------------------------------------------------
(* Inputs of the session specification *)

Uploads ==
    { Upload("p.pdf", File(TRUE, <<P_ab>>, <<>>, <<>>)),
      Upload("p.pdf", File(TRUE, <<P_abc, P_ab>>, <<>>, <<>>)),
      Upload("q.pdf", File(TRUE, <<P_raise>>, <<>>, <<>>)),
      Upload("q.pdf", File(FALSE, <<>>, <<>>, <<>>)) }

KeywordInputs ==
    { <<>>,
      <<" ", "\n", "\t", "\n">>,
      <<"a", "\n", "A", " ">>,
      <<"a", " ", "b", "\n", "\n", " ", "a", "b", "c", " ", "a", " ", "b">>,
      <<"c">> }

\* the first run of the script (lines 359-361), nothing uploaded yet
Init ==
    /\ pc = "idle"
    /\ error = "none"
    /\ pdf_path = ""
    /\ output_path = ""
    /\ patents = [n \in Names |-> NoFile]
    /\ highlighted = [n \in OutNames |-> NoFile]
    /\ uploaded_file = NoUpload
    /\ keywords_input = <<>>
    /\ ui_message = "none"
    /\ event = "none"
    /\ session_state = NoSession
    /\ doc = <<>>
    /\ search_items = <<>>
    /\ results = <<>>
    /\ result_keys = <<>>
    /\ match_pct = [num |-> 0, den |-> 1]
    /\ page_num = 0
    /\ item_idx = 0
    /\ stage = "s12"
    /\ hl_items = <<>>
    /\ total_highlights = 0
    /\ highlighted_positions = {}
    /\ annots = <<>>
    /\ last_cands = <<>>
    /\ saves = 0

\* HlSkipItem is left out: the items handed to the highlighter are keys of
\* the report, which line 503 keeps non-blank
Next ==
    \/ \E up \in Uploads : SelectFile(up)
    \/ ClearFile
    \/ \E input \in KeywordInputs : AnalyzeBtn(input)
    \/ AnalyzeAfterSearch
    \/ AnalyzeStore
    \/ NewAnalysis
    \/ SearchOpen
    \/ SearchPage
    \/ SearchItem
    \/ SearchFinish
    \/ HlOpen
    \/ HlStrategy1
    \/ HlStrategy2
    \/ HlStrategy3
    \/ HlStrategy4
    \/ HlSave

Spec == Init /\ [][Next]_vars

-----------------------------------------------------------------------------
(* Properties of highlight_pdf_ultimate *)

AnnotKey(a) == PosKey(a.page, a.rect)

\* C1: no two applied highlight annotations share a position key, the recorded
\* keys are exactly the keys of the applied annotations and total_highlights
\* counts them: a candidate whose key is recorded is never annotated again,
\* whatever the keyword or the strategy.
C1_NoSharedPositionKey ==
    /\ \A i, j \in 1..Len(annots) :
          i # j => AnnotKey(annots[i]) # AnnotKey(annots[j])
    /\ highlighted_positions = {AnnotKey(annots[i]) : i \in 1..Len(annots)}
    /\ total_highlights = Len(annots)

\* C1 witness: a strategy has just offered a candidate whose key was recorded
\* for another rectangle by another strategy and another keyword, and the
\* candidate was discarded.
C1_Witness ==
    \E s \in Range(last_cands) : \E i \in 1..Len(annots) :
        /\ AnnotKey(annots[i]) = PosKey(s.page, s.cand.rect)
        /\ annots[i].rect # s.cand.rect
        /\ annots[i].strategy # s.cand.strategy
        /\ annots[i].item # s.item

\* a second pass of the applier over candidates already handed to it
RECURSIVE ReApply(_, _)
ReApply(st, subs) ==
    IF subs = <<>> THEN st
    ELSE ReApply(Apply(st, Head(subs).page, Head(subs).item, Head(subs).cand),
                 Tail(subs))

\* C6: running the dedup-and-apply step once more over the candidates it has
\* just processed adds no annotation and leaves total_highlights and the
\* recorded position keys as they are.
C6_SecondPassAddsNothing ==
    ReApply(CurApplier, last_cands) = CurApplier

\* C6 witness: the step has just annotated two candidates of one strategy
C6_Witness ==
    /\ Len(last_cands) >= 2
    /\ Len(annots) >= 2
    /\ \A k \in 0..1 :
          /\ annots[Len(annots) - k].rect = last_cands[Len(last_cands) - k].cand.rect
          /\ annots[Len(annots) - k].page = last_cands[Len(last_cands) - k].page
          /\ annots[Len(annots) - k].item = last_cands[Len(last_cands) - k].item

LineText(line) == Normalize(JoinSpans(line.spans))

HoldsSomeWord(line, item) ==
    \E w \in Range(Split(Normalize(item))) : IsSubstr(w, LineText(line))

\* the candidates of strategy 3 handed to the applier by the last step
Strategy3Emitted == {s \in Range(last_cands) : s.cand.strategy = 3}

\* C10 (as claimed): strategy 3 emits a line's bounding box only if the line's
\* own normalized text contains the whole normalized phrase and one of its
\* words.
C10_LineHoldsPhraseAsClaimed ==
    \A s \in Strategy3Emitted :
        \E b \in Range(doc[s.page + 1].dict.blocks) :
            /\ b.has_lines
            /\ \E l \in Range(b.lines) :
                  /\ l.bbox = s.cand.rect
                  /\ IsSubstr(Normalize(s.item), LineText(l))
                  /\ HoldsSomeWord(l, s.item)

\* C10 (amended): strategy 3 emits a line's bounding box only if the text of
\* the line's whole block, normalized, contains the normalized phrase and the
\* line's own normalized text contains one of the phrase's words.
C10_BlockHoldsPhrase ==
    \A s \in Strategy3Emitted :
        \E b \in Range(doc[s.page + 1].dict.blocks) :
            /\ b.has_lines
            /\ IsSubstr(Normalize(s.item), Normalize(BlockText(b)))
            /\ \E l \in Range(b.lines) :
                  /\ l.bbox = s.cand.rect
                  /\ HoldsSomeWord(l, s.item)

\* C10 witness: strategy 3 has emitted a line that holds a word of the phrase
\* but not the phrase, from a block that holds the phrase
C10_Witness ==
    \E s \in Strategy3Emitted :
        \E b \in Range(doc[s.page + 1].dict.blocks) :
            /\ b.has_lines
            /\ IsSubstr(Normalize(s.item), Normalize(BlockText(b)))
            /\ \E l \in Range(b.lines) :
                  /\ l.bbox = s.cand.rect
                  /\ HoldsSomeWord(l, s.item)
                  /\ ~IsSubstr(Normalize(s.item), LineText(l))

\* the page of an annotation has no readable structured layout
LayoutUnreadable(a) == doc[a.page + 1].dict.raises

\* the annotation is a word hit of strategy 4: the hit of a word of the
\* phrase longer than 2 characters whose neighbourhood holds another word
WordHit(a) ==
    LET words == Split(Normalize(a.item))
        page == doc[a.page + 1]
    IN /\ Len(words) >= 3
       /\ \E w \in LongWords(words) :
             /\ a.rect \in Range(SearchFor(page, words[w]).rects)
             /\ Accepts4(words, words[w], GetTextbox(page, NearbyRect(a.rect)))

Tokens(item) == Split(Normalize(item))

\* the strategy tags of the candidates the step hands to the applier are all t
TaggedOnly(subs, t) == \A s \in Range(subs) : s.cand.strategy = t

\* C12: for every page and keyword with a non-empty normalized form the
\* cascade runs strategy 1 exactly for one token, strategy 2 exactly for two
\* or more, then strategy 3 for every keyword, then strategy 4 exactly for
\* three tokens or more and only on words longer than 2 characters; which
\* strategy runs next never depends on the regions applied so far; a keyword
\* that normalizes to the empty string is passed over and contributes no
\* region.  (The one way out of the cascade is a token search that raises.)
C12_CascadeRunsApplicable ==
    /\ [](/\ error \in {"none", "open", "save", "search_for"}
          /\ (pc = "hl_item" /\ stage = "s4") => Len(Words) >= 3
          /\ (pc = "hl_item" /\ stage = "s3") => Len(Words) >= 1
          /\ \A i \in 1..Len(annots) :
                LET n == Len(Tokens(annots[i].item))
                IN /\ n >= 1
                   /\ annots[i].strategy = 1 => n = 1
                   /\ annots[i].strategy = 2 => n >= 2
                   /\ annots[i].strategy = 4 => n >= 3 /\ WordHit(annots[i]))
    /\ [][(pc = "hl_item" /\ pc' # "aborted")
             => IF stage = "s12" /\ Len(Words) = 0
                THEN /\ CurApplier' = CurApplier
                     /\ last_cands' = <<>>
                     /\ stage' = "s12"
                     /\ <<page_num', item_idx'>> # <<page_num, item_idx>>
                            \/ pc' = "hl_save"
                ELSE IF stage = "s12" /\ Len(Words) = 1
                THEN /\ last_cands' =
                          Submitted(page_num, CurItem,
                             [i \in 1..Len(SearchFor(CurPage, Words[1]).rects)
                                 |-> Region(SearchFor(CurPage, Words[1]).rects[i],
                                            45, 1)])
                     /\ stage' = "s3"
                     /\ <<pc', page_num', item_idx'>> = <<pc, page_num, item_idx>>
                ELSE IF stage = "s12"
                THEN /\ TaggedOnly(last_cands', 2)
                     /\ stage' = "s3"
                     /\ <<pc', page_num', item_idx'>> = <<pc, page_num, item_idx>>
                ELSE IF stage = "s3"
                THEN /\ TaggedOnly(last_cands', 3)
                     /\ IF Len(Words) >= 3
                        THEN /\ stage' = "s4"
                             /\ <<pc', page_num', item_idx'>>
                                    = <<pc, page_num, item_idx>>
                        ELSE stage' = "s12"
                ELSE /\ TaggedOnly(last_cands', 4)
                     /\ stage' = "s12"]_vars

\* C12 witness: a run over a keyword list that holds a blank keyword has
\* ended; on one page one phrase of three words got a region from strategy 2,
\* then one from strategy 3, then one from strategy 4
C12_Witness ==
    /\ pc = "hl_done"
    /\ \E k \in Range(hl_items) : Tokens(k) = <<>>
    /\ \E i, j, k \in 1..Len(annots) :
          /\ i < j /\ j < k
          /\ annots[i].strategy = 2
          /\ annots[j].strategy = 3
          /\ annots[k].strategy = 4
          /\ annots[i].page = annots[k].page /\ annots[j].page = annots[k].page
          /\ annots[i].item = annots[k].item /\ annots[j].item = annots[k].item

\* C12 second case, kept for the record: a single word got a region from
\* strategy 1 and then one from strategy 3 on the same page
C12_SingleWordReached ==
    \E i, j \in 1..Len(annots) :
        /\ i < j
        /\ annots[i].strategy = 1
        /\ annots[j].strategy = 3
        /\ annots[i].page = annots[j].page
        /\ annots[i].item = annots[j].item

-----------------------------------------------------------------------------
(* Properties of search_pdf_ultimate *)

\* 1-based numbers of the pages whose normalized text contains the
\* normalized keyword
HitPages(k) ==
    {p \in 1..Len(doc) : IsSubstr(Normalize(k), Normalize(doc[p].text))}

RECURSIVE OccurrencesUpTo(_, _)
OccurrencesUpTo(k, n) ==
    IF n = 0 THEN 0
    ELSE OccurrencesUpTo(k, n - 1)
            + Count(Normalize(doc[n].text), Normalize(k))

\* the percentage num/den compared with a whole number
PctEquals(pct, n) == pct.num = n * pct.den
PctInRange(pct) == 0 <= pct.num /\ pct.num <= 100 * pct.den

\* C2 (as claimed): match_percentage lies in [0,100], is 0 for an empty
\* keyword list, and for a non-empty list is 100 exactly when every keyword
\* of the list is found on at least one page.
C2_PercentageAsClaimed ==
    pc = "search_done" =>
        /\ PctInRange(match_pct)
        /\ (search_items = <<>> => PctEquals(match_pct, 0))
        /\ (search_items # <<>> =>
                (PctEquals(match_pct, 100)
                    <=> \A i \in 1..Len(search_items) :
                            HitPages(search_items[i]) # {}))

\* C3: after the scan, found holds exactly for the keywords whose normalized
\* form is a substring of the normalized text of some page, and pages lists
\* exactly those pages, ascending, each once.
C3_FoundAndPages ==
    pc = "search_done" =>
        \A i \in 1..Len(search_items) :
            LET k == search_items[i]
                e == results[k]
            IN /\ e.found <=> HitPages(k) # {}
               /\ Range(e.pages) = HitPages(k)
               /\ \A a, b \in 1..Len(e.pages) : a < b => e.pages[a] < e.pages[b]

\* C3 witness: a scan ended with a keyword given twice that is found on two
\* pages, next to a keyword that is found on no page.
C3_Witness ==
    /\ pc = "search_done"
    /\ \E i, j \in 1..Len(search_items) :
          /\ i # j
          /\ search_items[i] = search_items[j]
          /\ results[search_items[i]].pages = <<1, 2>>
    /\ Len(doc) = 2

\* C3 second case, kept for the record: a keyword found on no page
C3_NotFoundReached ==
    /\ pc = "search_done"
    /\ Len(doc) > 0
    /\ \E i \in 1..Len(search_items) : ~results[search_items[i]].found

\* C4 (as claimed): after the scan, count is the sum over the pages of the
\* non-overlapping occurrences of the normalized keyword in the page's
\* normalized text.
C4_CountAsClaimed ==
    pc = "search_done" =>
        \A i \in 1..Len(search_items) :
            /\ results[search_items[i]].count
                  = OccurrencesUpTo(search_items[i], Len(doc))
            /\ results[search_items[i]].count >= 0

\* C5 (as claimed): the keys of the report, in iteration order, are the input
\* list entry for entry.
C5_OrderAsClaimed ==
    pc = "search_done" => result_keys = search_items

\* positions of the input list that hold a keyword for the first time
FirstPositions(items) ==
    {i \in 1..Len(items) : \A j \in 1..(i - 1) : items[j] # items[i]}

\* C5 (amended): the keys of the report, in iteration order, are the input
\* list with every repeated keyword kept at its first position only.
C5_OrderOfFirstOccurrences ==
    pc = "search_done" =>
        LET first == FirstPositions(search_items)
        IN /\ Len(result_keys) = Cardinality(first)
           /\ DOMAIN results = Range(result_keys)
           /\ \A i \in first :
                 result_keys[Cardinality({j \in first : j <= i})]
                    = search_items[i]

\* C5 witness: a report for a list that gives one keyword twice
C5_Witness ==
    /\ pc = "search_done"
    /\ Len(search_items) = 2
    /\ search_items[1] = search_items[2]
    /\ result_keys = <<search_items[1]>>
    /\ Len(doc) > 0

\* C5 second case, kept for the record: a report of two different keywords
C5_DistinctReached ==
    /\ pc = "search_done"
    /\ Len(search_items) = 2
    /\ search_items[1] # search_items[2]
    /\ result_keys = search_items

\* C9 (as claimed): a run is aborted only by a document that cannot be
\* opened or by a failed save, never by the read of one page.
C9_OnlyOpenOrSaveAborts ==
    pc = "aborted" => error \in {"open", "save"}

-----------------------------------------------------------------------------
(* Properties of the analysis run *)

\* the keyword input holds no non-blank line
NoNonBlankLine(input) ==
    \A i \in 1..Len(SplitLines(input)) : Strip(SplitLines(input)[i]) = <<>>

\* what a stored run leaves in the session
StoredRun(ss) ==
    <<ss.analyzed, ss.results, ss.result_keys, ss.match_percentage,
      ss.highlighted_pdf, ss.total_highlights,
      ss.keys \cap {"results", "match_percentage", "highlighted_pdf",
                    "total_highlights"}>>

\* C7: when ANALYZE is pressed with an input that holds no non-blank line,
\* the error is shown, control stays outside search_pdf_ultimate and
\* highlight_pdf_ultimate, and analyzed, results, match_percentage,
\* highlighted_pdf and total_highlights (and the highlighted files) are left
\* as they were.
C7_BlankInputAborts ==
    [][(Idle /\ event' = "analyze" /\ NoNonBlankLine(keywords_input'))
          => /\ ui_message' = "error_no_keyword"
             /\ pc' = "idle"
             /\ StoredRun(session_state') = StoredRun(session_state)
             /\ highlighted' = highlighted
             /\ saves' = saves]_vars

\* C7 witness: ANALYZE was pressed on blank lines after a stored run, which
\* is still in the session
C7_Witness ==
    /\ pc = "idle"
    /\ event = "analyze"
    /\ ui_message = "error_no_keyword"
    /\ keywords_input # <<>>
    /\ session_state.analyzed
    /\ session_state.total_highlights > 0

Completed == pc = "idle" /\ ui_message = "analysis_complete"

SomeKeywordFound(ss) == \E k \in DOMAIN ss.results : ss.results[k].found

\* the output is not written before the last page and keyword are done
NotWrittenEarly ==
    /\ pc \in {"search_open", "search_page", "search_item", "search_done",
               "hl_open", "hl_item", "hl_save"} => saves = 0
    /\ pc = "hl_done" =>
          /\ saves = 1
          /\ highlighted[output_path].exists
          /\ highlighted[output_path].annots = annots

\* C8 (as claimed): every run that ends with the session marked analyzed has
\* written the annotated document exactly once, after the last page and
\* keyword and before the session is marked.
C8_WrittenOnceAsClaimed ==
    /\ Completed => saves = 1
    /\ NotWrittenEarly

\* C8 (amended): a run that ends with the session marked analyzed has written
\* the annotated document exactly once if some keyword was found, after the
\* last page and keyword and before the session is marked, and has not
\* written it at all if no keyword was found.
C8_WrittenOnceIfFound ==
    /\ Completed =>
          saves = (IF SomeKeywordFound(session_state) THEN 1 ELSE 0)
    /\ Completed /\ SomeKeywordFound(session_state) =>
          highlighted[session_state.highlighted_pdf].exists
    /\ NotWrittenEarly

\* C8 witness: a run over a document of two pages has ended, with keywords
\* found and their highlights written
C8_Witness ==
    /\ Completed
    /\ saves = 1
    /\ SomeKeywordFound(session_state)
    /\ session_state.page_count = 2
    /\ Len(highlighted[session_state.highlighted_pdf].annots) >= 2
    /\ session_state.total_highlights
          = Len(highlighted[session_state.highlighted_pdf].annots)

\* lines 604-607: the viewer column offers the file at the stored path
ViewerOffers ==
    /\ pc = "idle"
    /\ session_state.analyzed
    /\ "highlighted_pdf" \in session_state.keys
    /\ highlighted[session_state.highlighted_pdf].exists

\* C13 (as claimed): the file the viewer offers was written by the run stored
\* in the session: it was saved for that run's found keywords and holds as
\* many highlights as the run reports.
C13_ViewerShowsLatestRun ==
    ViewerOffers =>
        LET f == highlighted[session_state.highlighted_pdf]
        IN /\ f.items = FoundItems(session_state.results,
                                   session_state.result_keys)
           /\ Len(f.annots) = session_state.total_highlights

\* 1-based numbers of the pages of a document whose normalized text contains
\* the normalized keyword
PagesHolding(k, pages) ==
    {p \in 1..Len(pages) : IsSubstr(Normalize(k), Normalize(pages[p].text))}

\* C14 (as claimed): whenever the report is displayed (analyzed is true), it
\* is the report of the document stored as current_pdf: highlighted_pdf is
\* the output path of that document and every keyword's pages are the pages
\* of that document that hold it.
C14_ReportOfCurrentDocument ==
    (pc = "idle" /\ session_state.analyzed) =>
        LET f == patents[session_state.current_pdf]
        IN /\ session_state.highlighted_pdf
                 = HighlightedName(session_state.current_pdf)
           /\ \A k \in DOMAIN session_state.results :
                 Range(session_state.results[k].pages)
                    = PagesHolding(k, f.pages)

=============================================================================
